---- MODULE Spec2Model ----
(***************************************************************************)
(* A model of post.py, the script that posts tomorrow's electricity spot   *)
(* prices for DK1 and DK2 to Slack webhooks and Mastodon instances.        *)
(*                                                                         *)
(* One invocation of the script is a sequential process; its blocking I/O  *)
(* calls (the state file, the price API, the destinations) are the steps   *)
(* of the model, and the wall clock may advance between any two of them.   *)
(* The pure functions (update_available, format_message, post_message,     *)
(* get_prices) are operators; each also has a small specification of its   *)
(* own that draws its inputs from bounded sets and applies it.             *)
(***************************************************************************)
EXTENDS Integers, Sequences, FiniteSets, TLC

VARIABLES
    clock,            \* datetime.now(ZONE), the wall clock
    last_update,      \* the content of the file LAST_UPDATE_FILE: None or Some(datetime)
    pc,               \* the position of the running invocation
    webhook_urls,     \* sys.argv[1:] of the running invocation
    area,             \* update(): index of the price_area loop
    message_parts,    \* update(): message_parts
    message,          \* update(): message, once joined
    i,                \* update(): index of the webhook_urls loop
    outcome,          \* observation: how the running invocation went
    start_update,     \* observation: last_update when the invocation started
    decision,         \* observation: what update_available() saw
    attempted,        \* observation: destinations post_message was called with
    sent,             \* observation: the requests.post calls of this invocation
    run,              \* observation: number of invocations that reached the delivery loop
    log,              \* observation: what the runs that reached the delivery loop did, and when
    last_query,       \* observation: per price area, date of the latest get_prices call
    repolled,         \* observation: some area was queried twice on one date
    run_queries,      \* observation: <<area, date>> of this invocation's get_prices calls
    ua,               \* a call of update_available on drawn inputs
    fm,               \* a call of format_message on drawn inputs
    pm,               \* a call of post_message on drawn inputs
    gp                \* a call of get_prices on drawn inputs

mainVars == <<clock, last_update, pc, webhook_urls, area, message_parts, message, i,
              outcome, start_update, decision, attempted, sent, run, log,
              last_query, repolled, run_queries>>
callVars == <<ua, fm, pm, gp>>
vars == <<mainVars, callVars>>

----------------------------------------------------------------------------
(* Bounds of the model. *)

NumDays == 2        \* days of September in the calendar
MaxDests == 2       \* longest destination list on the command line
MaxPrices == 3      \* longest price list handed to format_message
MaxUrlLen == 4      \* longest destination URL handed to post_message
MaxRecords == 2     \* most records in a price response handed to get_prices

----------------------------------------------------------------------------
(* Optional values: Python's None and a present value. *)

None == <<>>
Some(x) == <<x>>

(* Timezone-aware datetimes, all in ZONE: year, month, day, hour, minute. *)

DateTime(y, mo, d, h, mi) ==
    [year |-> y, month |-> mo, day |-> d, hour |-> h, minute |-> mi]

\* The calendar: the first NumDays days of September, then 1 October.
Dates(years) ==
    {<<y, 9, d>> : y \in years, d \in 1..NumDays} \cup {<<y, 10, 1>> : y \in years}

\* The times of day the model distinguishes: around midnight and around 12:30.
TimesOfDay == {<<0, 0>>, <<11, 30>>, <<12, 29>>, <<12, 30>>, <<13, 0>>, <<23, 59>>}
ClockTimesOfDay == {<<12, 29>>, <<12, 30>>}

DateTimes(years, tods) ==
    {DateTime(d[1], d[2], d[3], t[1], t[2]) : d \in Dates(years), t \in tods}

\* The values the wall clock takes in the model of the whole script.
ClockTimes == DateTimes({2022}, ClockTimesOfDay)

\* datetime.__gt__ of two datetimes with the same tzinfo: field by field.
Later(a, b) ==
    \/ a.year > b.year
    \/ a.year = b.year /\ a.month > b.month
    \/ a.year = b.year /\ a.month = b.month /\ a.day > b.day
    \/ a.year = b.year /\ a.month = b.month /\ a.day = b.day /\ a.hour > b.hour
    \/ a.year = b.year /\ a.month = b.month /\ a.day = b.day /\ a.hour = b.hour
       /\ a.minute > b.minute

\* The calendar date of a datetime, and a day count that orders dates.
DateOf(t) == <<t.year, t.month, t.day>>
Ordinal(date) == (date[1] * 12 + date[2]) * 31 + date[3]
MinuteOfDay(t) == t.hour * 60 + t.minute

----------------------------------------------------------------------------
(* get_latest_data_date: the HourDK of the upstream's latest record, cut   *)
(* down to its date (midnight of that date, in ZONE).                      *)

get_latest_data_date(record) ==
    DateTime(record.HourDK.year, record.HourDK.month, record.HourDK.day, 0, 0)

\* last_update.year == now.year and .month == .month and .day == .day
SameDay(a, b) == a.year = b.year /\ a.month = b.month /\ a.day = b.day

\* Faulty variant: the parentheses misplaced.
BeforePublication_Precedence(now) == (now.hour < 12 \/ now.hour = 12) /\ now.minute < 30
\* now.hour < 12 or (now.hour == 12 and now.minute < 30)
BeforePublication(now) == now.hour < 12 \/ (now.hour = 12 /\ now.minute < 30)

\* Faulty variants: without the already-ran-today test; without the data test.
update_available_NoDayCheck(stored, now, upstream) ==
    IF stored = None THEN "true"
    ELSE IF BeforePublication(now) THEN "false"
    ELSE IF upstream = None THEN "raise"
    ELSE IF Later(get_latest_data_date(upstream[1]), now) THEN "true" ELSE "false"
update_available_NoDataCheck(stored, now, upstream) ==
    IF stored = None THEN "true"
    ELSE IF SameDay(stored[1], now) THEN "false"
    ELSE IF BeforePublication(now) THEN "false"
    ELSE "true"
(* update_available: "true", "false", or "raise" when the latest-date      *)
(* query, made only on the last branch, fails. stored is what               *)
(* get_last_update() returns, now is datetime.now(ZONE), and upstream is   *)
(* the response the query would get: None when the request fails, else     *)
(* Some(record).                                                           *)
update_available(stored, now, upstream) ==
    IF stored = None THEN "true"
    ELSE IF SameDay(stored[1], now) THEN "false"
    ELSE IF BeforePublication(now) THEN "false"
    ELSE IF upstream = None THEN "raise"
    ELSE IF Later(get_latest_data_date(upstream[1]), now) THEN "true" ELSE "false"

----------------------------------------------------------------------------
(* format_message. prices is a sequence of pairs <<HourDK, price>>, the    *)
(* price None (a JSON null) or Some(number). The result is the three lines *)
(* of the text, each with the value it shows before it is divided by 1000  *)
(* and printed with two decimals; the mean is kept as the pair of the sum  *)
(* and the count. raised names the exception when there is no text.        *)

Raised(exception) == [raised |-> exception, lines |-> <<>>]

\* min(prices, key=lambda s: s[1]): the first item is kept until a smaller one comes
RECURSIVE MinFrom(_, _, _)
MinFrom(prices, k, best) ==
    IF k > Len(prices) THEN best
    ELSE MinFrom(prices, k + 1, IF prices[k][2][1] < best[2][1] THEN prices[k] ELSE best)

\* max(prices, key=lambda s: s[1]): the first item is kept until a larger one comes
RECURSIVE MaxFrom(_, _, _)
MaxFrom(prices, k, best) ==
    IF k > Len(prices) THEN best
    ELSE MaxFrom(prices, k + 1, IF prices[k][2][1] > best[2][1] THEN prices[k] ELSE best)

RECURSIVE SumFrom(_, _)
SumFrom(prices, k) ==
    IF k > Len(prices) THEN 0 ELSE prices[k][2][1] + SumFrom(prices, k + 1)

\* Faulty variant: a later item replaces an equal one.
min_LastOnTies(prices) ==
    LET RECURSIVE Last(_, _)
        Last(k, best) ==
            IF k > Len(prices) THEN best
            ELSE Last(k + 1, IF prices[k][2][1] <= best[2][1] THEN prices[k] ELSE best)
    IN Last(2, prices[1])
min(prices) == MinFrom(prices, 2, prices[1])
max(prices) == MaxFrom(prices, 2, prices[1])

format_message(prices) ==
    IF prices = <<>> THEN Raised("ValueError")
    ELSE IF \E k \in 1..Len(prices) : prices[k][2] = None THEN Raised("TypeError")
    ELSE LET lowest == min(prices)
             highest == max(prices)
         IN [raised |-> "",
             lines |-> << [label |-> "Lowest price", value |-> lowest[2][1],
                           time |-> lowest[1]],
                          [label |-> "Highest price", value |-> highest[2][1],
                           time |-> highest[1]],
                          [label |-> "Average price", sum |-> SumFrom(prices, 1),
                           count |-> Len(prices)] >>]

----------------------------------------------------------------------------
(* post_message. A URL is a sequence of characters; "h" "s" stands for the *)
(* Slack prefix https://hooks.slack.com. delivered tells whether           *)
(* requests.post returns or raises. The result is the requests.post calls  *)
(* made and whether an exception left the function.                        *)

SlackPrefix == <<"h", "s">>
UrlChars == {"h", "s", "m", "?"}

\* Faulty variant: the prefix is looked for anywhere in the string.
StartsWith_Contains(s, prefix) ==
    \E k \in 0..(Len(s) - Len(prefix)) : SubSeq(s, k + 1, k + Len(prefix)) = prefix
\* str.startswith(prefix)
StartsWith(s, prefix) ==
    Len(s) >= Len(prefix) /\ SubSeq(s, 1, Len(prefix)) = prefix

\* str.split(sep): the pieces between all occurrences of sep
RECURSIVE split(_, _)
split(s, sep) ==
    IF \A k \in 1..Len(s) : s[k] # sep THEN <<s>>
    ELSE LET k == CHOOSE k \in 1..Len(s) :
                      s[k] = sep /\ \A j \in 1..(k - 1) : s[j] # sep
         IN <<SubSeq(s, 1, k - 1)>> \o split(SubSeq(s, k + 1, Len(s)), sep)

post_message(url, text, delivered) ==
    IF StartsWith(url, SlackPrefix)
    THEN [raised |-> ~delivered,
          requests |-> << [url |-> url, data |-> [json |-> [text |-> text]],
                           headers |-> {<<"Content-Type", <<"application/json">> >>}] >>]
    ELSE LET pieces == split(url, "?")
         IN IF Len(pieces) # 2
            THEN [raised |-> TRUE, requests |-> <<>>]     \* ValueError on unpacking
            ELSE [raised |-> ~delivered,
                  requests |-> << [url |-> pieces[1] \o <<"/api/v1/statuses">>,
                                   data |-> [form |-> [status |-> text,
                                                       visibility |-> "public"]],
                                   headers |-> {<<"Authorization",
                                                  <<"Bearer ">> \o pieces[2]>>}] >>]

----------------------------------------------------------------------------
(* get_prices and parse_price. response is what the price API answers:     *)
(* ok is FALSE when the request fails, else records are its records, each  *)
(* with HourDK, SpotPriceDKK (None for a JSON null) and SpotPriceEUR.      *)

\* parse_price is defined in the source and called from nowhere. It returns the
\* value of the comparison (r := record["SpotPriceDKK"] is not None binds r to
\* the boolean), or the EUR price times the rate.
parse_price(record, dkk_per_eur) ==
    IF record.SpotPriceDKK # None THEN TRUE
    ELSE record.SpotPriceEUR * dkk_per_eur

get_prices(response) ==
    IF ~response.ok THEN [raised |-> TRUE, prices |-> <<>>]
    ELSE [raised |-> FALSE,
          prices |-> [k \in 1..Len(response.records) |->
                         <<response.records[k].HourDK, response.records[k].SpotPriceDKK>>]]

----------------------------------------------------------------------------
(* The script as a whole: the __main__ block and update().                 *)

PriceAreas == <<"DK1", "DK2">>

\* Destinations on the command line: a Slack webhook, and a Mastodon instance
\* whose "?" and token are missing.
Destinations == {<<"h", "s", "m">>, <<"m">>}
DestinationLists == UNION {[1..n -> Destinations] : n \in 0..MaxDests}

\* What the latest-date query may answer: a failure, or the latest record.
LatestResponses ==
    {None} \cup {Some([HourDK |-> DateTime(d[1], d[2], d[3], 23, 0)]) : d \in Dates({2022})}

\* What the price query may answer: a failure, a weekday's records, a weekend's
\* records (SpotPriceDKK null), no records.
PriceRecord(hour, dkk, eur) == [HourDK |-> hour, SpotPriceDKK |-> dkk, SpotPriceEUR |-> eur]
PriceResponses ==
    { [ok |-> FALSE, records |-> <<>>],
      [ok |-> TRUE, records |-> <<PriceRecord(1, Some(500), 70), PriceRecord(0, Some(100), 14)>>],
      [ok |-> TRUE, records |-> <<PriceRecord(1, None, 70), PriceRecord(0, None, 14)>>],
      [ok |-> TRUE, records |-> <<>>] }

NoCall == [phase |-> "none"]

MainInitAt(times) ==
    /\ clock \in times
    /\ last_update = None
    /\ pc = "idle"
    /\ webhook_urls = <<>>
    /\ area = 1
    /\ message_parts = <<>>
    /\ message = <<>>
    /\ i = 1
    /\ outcome = "none"
    /\ start_update = None
    /\ decision = None
    /\ attempted = <<>>
    /\ sent = <<>>
    /\ run = 0
    /\ log = {}
    /\ last_query = [a \in 1..2 |-> None]
    /\ repolled = FALSE
    /\ run_queries = {}

Init == MainInitAt(ClockTimes) /\ ua = NoCall /\ fm = NoCall /\ pm = NoCall /\ gp = NoCall

\* The wall clock moves on, between any two steps of the script.
tick ==
    /\ \E t \in ClockTimes : Later(t, clock) /\ clock' = t
    /\ UNCHANGED <<last_update, pc, webhook_urls, area, message_parts, message, i,
                   outcome, start_update, decision, attempted, sent, run, log,
                   last_query, repolled, run_queries>>

\* get_last_update(): None when the file does not exist, else what it holds.
get_last_update == last_update

\* if update_available(): webhook_urls = sys.argv[1:]; update(webhook_urls)
\* readable: whether pickle.load of an existing state file succeeds.
main_start ==
    /\ pc = "idle"
    /\ \E urls \in DestinationLists, upstream \in LatestResponses,
          readable \in {TRUE} \cup {r \in {FALSE} : last_update # None} :
          LET r == IF readable THEN update_available(get_last_update, clock, upstream)
                   ELSE "raise"
          IN /\ webhook_urls' = IF r = "true" THEN urls ELSE <<>>
             /\ decision' = Some([now |-> clock, upstream |-> upstream])
             /\ pc' = IF r = "true" THEN "fetch" ELSE "exit"
             /\ outcome' = CASE ~readable -> "abort: state read"
                              [] r = "raise" -> "abort: latest date"
                              [] r = "false" -> "skipped"
                              [] OTHER -> "running"
    /\ start_update' = last_update
    /\ area' = 1
    /\ message_parts' = <<>>
    /\ UNCHANGED <<clock, last_update, message, i, attempted, sent, run, log,
                   last_query, repolled, run_queries>>

\* prices = get_prices(price_area) and format_message(prices) are called outside
\* any try: an exception of either leaves update() and ends the script.
\* Faulty variant: the exception is swallowed and the loop goes on.
Propagates_Swallowed(prices, text) == FALSE
Propagates(prices, text) == prices.raised \/ text.raised # ""

\* One round of the price_area loop; after the second, the parts are joined.
update_fetch ==
    /\ pc = "fetch"
    /\ \E response \in PriceResponses :
          LET prices == get_prices(response)
              text == format_message(prices.prices)
              part == [price_area |-> PriceAreas[area], text |-> text.lines]
          IN IF Propagates(prices, text)
             THEN /\ pc' = "exit"
                  /\ outcome' = IF prices.raised THEN "abort: prices" ELSE "abort: format"
                  /\ UNCHANGED <<area, message_parts, message, i, run>>
             ELSE /\ message_parts' = Append(message_parts, part)
                  /\ IF area = Len(PriceAreas)
                     THEN /\ message' = message_parts'
                          /\ pc' = "post"
                          /\ i' = 1
                          /\ run' = run + 1
                          /\ area' = area
                     ELSE /\ area' = area + 1
                          /\ UNCHANGED <<pc, message, i, run>>
                  /\ UNCHANGED outcome
    /\ last_query' = [last_query EXCEPT ![area] = Some(DateOf(clock))]
    /\ repolled' = (repolled \/ last_query[area] = Some(DateOf(clock)))
    /\ run_queries' = run_queries \cup {<<area, DateOf(clock)>>}
    /\ UNCHANGED <<clock, last_update, webhook_urls, start_update, decision,
                   attempted, sent, log>>

\* Faulty variant: the exception of post_message is not caught.
AfterPost_Uncaught(raised) == IF raised THEN "exit" ELSE "post"
\* try: post_message(webhook_url, message) / except Exception as e: print(e):
\* where the loop goes after an attempt, whether or not it raised.
AfterPost(raised) == "post"

\* One round of the webhook_urls loop.
update_post ==
    /\ pc = "post"
    /\ i <= Len(webhook_urls)
    /\ \E delivered \in BOOLEAN :
          LET r == post_message(webhook_urls[i], message, delivered)
          IN /\ attempted' = Append(attempted, [url |-> webhook_urls[i], raised |-> r.raised])
             /\ sent' = sent \o r.requests
             /\ pc' = AfterPost(r.raised)
             /\ outcome' = IF pc' = "exit" THEN "abort: delivery" ELSE outcome
    /\ i' = i + 1
    /\ log' = log \cup {<<"post", run, DateOf(clock)>>}
    /\ UNCHANGED <<clock, last_update, webhook_urls, area, message_parts, message,
                   start_update, decision, run, last_query, repolled, run_queries>>

\* Faulty variants: only the date is written; nothing is written.
set_last_update_DateOnly(update_time) ==
    Some(DateTime(update_time.year, update_time.month, update_time.day, 0, 0))
set_last_update_NotWritten(update_time) == last_update
\* set_last_update(update_time): the file then holds update_time.
set_last_update(update_time) == Some(update_time)

\* set_last_update(datetime.now(ZONE)), after the loop.

update_store ==
    /\ pc = "post"
    /\ i > Len(webhook_urls)
    /\ last_update' = set_last_update(clock)
    /\ pc' = "exit"
    /\ outcome' = "completed"
    /\ log' = log \cup {<<"store", run, DateOf(clock)>>}
                  \cup {<<"query", run, q[1], q[2]>> : q \in run_queries}
    /\ UNCHANGED <<clock, webhook_urls, area, message_parts, message, i, start_update,
                   decision, attempted, sent, run, last_query, repolled, run_queries>>

\* The process ends, and with it everything but the state file.
main_exit ==
    /\ pc = "exit"
    /\ pc' = "idle"
    /\ webhook_urls' = <<>>
    /\ area' = 1
    /\ message_parts' = <<>>
    /\ message' = <<>>
    /\ i' = 1
    /\ outcome' = "none"
    /\ start_update' = None
    /\ decision' = None
    /\ attempted' = <<>>
    /\ sent' = <<>>
    /\ run_queries' = {}
    /\ UNCHANGED <<clock, last_update, run, log, last_query, repolled>>

Next ==
    \/ (tick /\ UNCHANGED callVars)
    \/ (main_start /\ UNCHANGED callVars)
    \/ (update_fetch /\ UNCHANGED callVars)
    \/ (update_post /\ UNCHANGED callVars)
    \/ (update_store /\ UNCHANGED callVars)
    \/ (main_exit /\ UNCHANGED callVars)

Spec == Init /\ [][Next]_vars

----------------------------------------------------------------------------
(* The functions on their own: each specification draws the arguments of   *)
(* one call from bounded sets and makes the call.                          *)

Idle == MainInitAt({DateTime(2022, 9, 1, 12, 29)})

AllTimes == DateTimes({2022, 2023}, TimesOfDay)
AllLatestResponses ==
    {None} \cup {Some([HourDK |-> DateTime(d[1], d[2], d[3], h, 0)]) :
                     d \in Dates({2022, 2023}), h \in {0, 23}}

InitDecide ==
    /\ Idle /\ fm = NoCall /\ pm = NoCall /\ gp = NoCall
    /\ ua \in {[phase |-> "call", stored |-> st, now |-> now, upstream |-> up,
                 result |-> "pending"] :
                   st \in {None} \cup {Some(t) : t \in AllTimes},
                   now \in AllTimes, up \in AllLatestResponses}

call_update_available ==
    /\ ua.phase = "call"
    /\ ua' = [ua EXCEPT !.phase = "return",
                        !.result = update_available(ua.stored, ua.now, ua.upstream)]
    /\ UNCHANGED <<mainVars, fm, pm, gp>>

SpecDecide == InitDecide /\ [][call_update_available]_vars

\* Prices: the hours in the order the API delivers them, here latest first.
PriceValues == {None, Some(-100), Some(0), Some(100), Some(500)}
PriceLists ==
    UNION {{[k \in 1..n |-> <<n - k, v[k]>>] : v \in [1..n -> PriceValues]} : n \in 0..MaxPrices}

InitFormat ==
    /\ Idle /\ ua = NoCall /\ pm = NoCall /\ gp = NoCall
    /\ fm \in {[phase |-> "call", prices |-> ps, result |-> Raised("pending")] :
                   ps \in PriceLists}

call_format_message ==
    /\ fm.phase = "call"
    /\ fm' = [fm EXCEPT !.phase = "return", !.result = format_message(fm.prices)]
    /\ UNCHANGED <<mainVars, ua, pm, gp>>

SpecFormat == InitFormat /\ [][call_format_message]_vars

Urls == UNION {[1..n -> UrlChars] : n \in 0..MaxUrlLen}

InitPost ==
    /\ Idle /\ ua = NoCall /\ fm = NoCall /\ gp = NoCall
    /\ pm \in {[phase |-> "call", url |-> u, text |-> "message", delivered |-> d,
                 result |-> [raised |-> FALSE, requests |-> <<>>]] :
                   u \in Urls, d \in BOOLEAN}

call_post_message ==
    /\ pm.phase = "call"
    /\ pm' = [pm EXCEPT !.phase = "return",
                        !.result = post_message(pm.url, pm.text, pm.delivered)]
    /\ UNCHANGED <<mainVars, ua, fm, gp>>

SpecPost == InitPost /\ [][call_post_message]_vars

RecordKinds ==
    {<<dkk, eur>> : dkk \in {None, Some(100), Some(-35)}, eur \in {14, -5}}
ApiResponses ==
    {[ok |-> FALSE, records |-> <<>>]} \cup
    UNION {{[ok |-> TRUE,
             records |-> [k \in 1..n |-> PriceRecord(n - k, r[k][1], r[k][2])]] :
               r \in [1..n -> RecordKinds]} : n \in 0..MaxRecords}

InitPrices ==
    /\ Idle /\ ua = NoCall /\ fm = NoCall /\ pm = NoCall
    /\ gp \in {[phase |-> "call", response |-> resp, dkk_per_eur |-> rate,
                 result |-> [raised |-> FALSE, prices |-> <<>>]] :
                   resp \in ApiResponses, rate \in {7, 8}}

call_get_prices ==
    /\ gp.phase = "call"
    /\ gp' = [gp EXCEPT !.phase = "return", !.result = get_prices(gp.response)]
    /\ UNCHANGED <<mainVars, ua, fm, pm>>

SpecPrices == InitPrices /\ [][call_get_prices]_vars

----------------------------------------------------------------------------
(* The claims.                                                             *)

\* The invocation ended on an exception of the decision or of the fetch.
Aborted == outcome \in {"abort: state read", "abort: latest date", "abort: prices",
                        "abort: format"}
\* The invocation has entered update().
InUpdate ==
    \/ pc \in {"fetch", "post"}
    \/ pc = "exit" /\ outcome \in {"abort: prices", "abort: format", "abort: delivery",
                                    "completed"}
LogOf(kind) == {e \in log : e[1] = kind}

\* C1: in update(), a delivery failure is caught and does not end the run; the
\* destinations are attempted once each, in list order, whatever fails; and
\* after the last attempt last_update is set to the current time.
C1_AttemptedInOrder ==
    /\ pc = "post" => Len(attempted) = i - 1
    /\ pc = "exit" /\ message # <<>>
          => Len(attempted) = Len(webhook_urls) /\ outcome = "completed"
    /\ Len(attempted) <= Len(webhook_urls)
    /\ \A k \in 1..Len(attempted) : attempted[k].url = webhook_urls[k]
C1_DeliveryFailuresIsolated ==
    /\ []C1_AttemptedInOrder
    /\ [][pc = "post" /\ pc' # "post"
            => /\ i > Len(webhook_urls)
               /\ pc' = "exit" /\ outcome' = "completed"
               /\ last_update' = Some(clock)]_vars
C1_AllFailedStillStored ==
    /\ pc = "exit" /\ outcome = "completed"
    /\ Len(webhook_urls) = MaxDests
    /\ \A k \in 1..Len(attempted) : attempted[k].raised
    /\ last_update = Some(clock)

\* C2: update_available() returns true exactly when there is no stored
\* last_update, or the stored date differs from today's, it is 12:30 or later,
\* and the upstream's latest date is after today.
C2_UpdateAvailableIff ==
    ua.phase = "return" /\ ua.upstream # None
    => /\ ua.result \in {"true", "false"}
       /\ ua.result = "true" <=>
            \/ ua.stored = None
            \/ /\ DateOf(ua.stored[1]) # DateOf(ua.now)
               /\ MinuteOfDay(ua.now) >= 12 * 60 + 30
               /\ Ordinal(DateOf(ua.upstream[1].HourDK)) > Ordinal(DateOf(ua.now))
C2_TrueOnNewDay ==
    /\ ua.phase = "return" /\ ua.upstream # None
    /\ ua.stored # None /\ ua.result = "true"
    /\ ua.now.hour = 12 /\ ua.now.minute = 30

\* C3: the summary is posted at most once per calendar day: the posts made on
\* one date are all of one run, no two runs store timestamps of the same date,
\* and no run posts on a date an earlier run stored.
C3_OncePerDay ==
    /\ \A e1, e2 \in LogOf("post") : e1[3] = e2[3] => e1[2] = e2[2]
    /\ \A e1, e2 \in LogOf("store") : e1[3] = e2[3] => e1[2] = e2[2]
    /\ \A e1 \in LogOf("store"), e2 \in LogOf("post") : e1[2] < e2[2] => e1[3] # e2[3]
    /\ InUpdate /\ start_update # None
          => DateOf(start_update[1]) # DateOf(decision[1].now)
C3_TwoRunsPosted ==
    /\ \E e1, e2 \in LogOf("post") : e1[2] # e2[2]
    /\ \E e1, e2 \in LogOf("store") : e1[2] # e2[2]

\* C4 as claimed: whenever update() runs, the latest date the upstream has to
\* give at decision time is after the current time.
C4_UpdateOnlyAfterNewData ==
    InUpdate /\ decision[1].upstream # None
    => Ordinal(DateOf(decision[1].upstream[1].HourDK))
         > Ordinal(DateOf(decision[1].now))
\* C4 as amended: whenever update() runs and a last_update was stored before,
\* the upstream's latest date at decision time is after the current time.
C4_UpdateAfterNewDataUnlessFirst ==
    InUpdate /\ start_update # None
    => /\ decision[1].upstream # None
       /\ Ordinal(DateOf(decision[1].upstream[1].HourDK))
             > Ordinal(DateOf(decision[1].now))
C4_LaterRunPosts ==
    pc = "post" /\ start_update # None /\ attempted # <<>>

\* C5 as claimed: every price get_prices returns is the record's DKK price
\* when it has one, else its EUR price times the rate; none is null.
C5_PricesResolvedToDKK ==
    gp.phase = "return" /\ ~gp.result.raised
    => \A k \in 1..Len(gp.result.prices) :
          LET record == gp.response.records[k]
          IN gp.result.prices[k][2] =
                IF record.SpotPriceDKK # None THEN record.SpotPriceDKK
                ELSE Some(record.SpotPriceEUR * gp.dkk_per_eur)

\* C6: when the state read, the latest-date query, the price fetch or the
\* formatting fails, nothing is delivered and last_update stays as it was; and
\* whatever is delivered holds the three lines of both DK1 and DK2.
C6_AbortBeforeDelivery ==
    /\ pc = "fetch" \/ (pc = "exit" /\ Aborted)
          => /\ attempted = <<>> /\ sent = <<>>
             /\ last_update = start_update
    /\ \A k \in 1..Len(sent) :
          LET text == sent[k].data.json.text
          IN /\ Len(text) = 2
             /\ text[1].price_area = "DK1" /\ text[2].price_area = "DK2"
             /\ Len(text[1].text) = 3 /\ Len(text[2].text) = 3
C6_AbortedOnSecondArea ==
    pc = "exit" /\ outcome = "abort: format" /\ Len(message_parts) = 1
    /\ start_update # None

\* C7: last_update is written only after the delivery loop has finished, only
\* with the current time, and never with an earlier time than it held.
C7_LastUpdateMonotonic ==
    [][last_update' # last_update
         => /\ pc = "post" /\ i > Len(webhook_urls)
            /\ Len(attempted) = Len(webhook_urls)
            /\ last_update' = Some(clock)
            /\ last_update # None => ~Later(last_update[1], last_update'[1])]_vars
C7_StoredTwice ==
    /\ pc = "exit" /\ outcome = "completed"
    /\ start_update # None /\ Later(last_update[1], start_update[1])

\* C8: format_message reports the first pair with the minimum price, the
\* first pair with the maximum price, and the sum over the count, which lies
\* between them; the text has the three lines in that order.
IndexTotal(prices) ==
    LET RECURSIVE Up(_)
        Up(n) == IF n = 0 THEN 0 ELSE Up(n - 1) + prices[n][2][1]
    IN Up(Len(prices))
C8_FormatMessage ==
    /\ fm.phase = "return" /\ fm.prices # <<>>
    /\ \A k \in 1..Len(fm.prices) : fm.prices[k][2] # None
    => LET ps == fm.prices
           n == Len(ps)
           lines == fm.result.lines
           lo == CHOOSE k \in 1..n : /\ \A j \in 1..n : ps[k][2][1] <= ps[j][2][1]
                                     /\ \A j \in 1..(k - 1) : ps[j][2][1] # ps[k][2][1]
           hi == CHOOSE k \in 1..n : /\ \A j \in 1..n : ps[k][2][1] >= ps[j][2][1]
                                     /\ \A j \in 1..(k - 1) : ps[j][2][1] # ps[k][2][1]
       IN /\ fm.result.raised = ""
          /\ Len(lines) = 3
          /\ lines[1] = [label |-> "Lowest price", value |-> ps[lo][2][1], time |-> ps[lo][1]]
          /\ lines[2] = [label |-> "Highest price", value |-> ps[hi][2][1], time |-> ps[hi][1]]
          /\ lines[3] = [label |-> "Average price", sum |-> IndexTotal(ps), count |-> n]
          /\ n * ps[lo][2][1] <= lines[3].sum
          /\ lines[3].sum <= n * ps[hi][2][1]
C8_TiedPrices ==
    /\ fm.phase = "return" /\ Len(fm.prices) = MaxPrices
    /\ \A k \in 1..Len(fm.prices) : fm.prices[k][2] # None
    /\ fm.prices[1][2] = fm.prices[2][2]
    /\ fm.prices[3][2][1] > fm.prices[1][2][1]
    /\ fm.result.lines[1].time = fm.prices[1][1]

\* C9 as claimed: a destination that does not start with the Slack prefix and
\* holds a "?" is split at its first "?" and gets one POST, to the part before
\* it plus /api/v1/statuses, with the part after it as the bearer token; a
\* destination starting with the Slack prefix gets one POST of {"text": message}.
FirstMark(url) == CHOOSE k \in 1..Len(url) : url[k] = "?" /\ \A j \in 1..(k - 1) : url[j] # "?"
Marks(url) == {k \in 1..Len(url) : url[k] = "?"}
IsSlack(url) == Len(url) >= 2 /\ url[1] = "h" /\ url[2] = "s"
MastodonRequest(url, text) ==
    [url |-> SubSeq(url, 1, FirstMark(url) - 1) \o <<"/api/v1/statuses">>,
     data |-> [form |-> [status |-> text, visibility |-> "public"]],
     headers |-> {<<"Authorization",
                    <<"Bearer ">> \o SubSeq(url, FirstMark(url) + 1, Len(url))>>}]
SlackRequest(url, text) ==
    [url |-> url, data |-> [json |-> [text |-> text]],
     headers |-> {<<"Content-Type", <<"application/json">> >>}]
C9_SplitOnFirstMark ==
    pm.phase = "return"
    => /\ ~IsSlack(pm.url) /\ Marks(pm.url) # {}
            => pm.result.requests = <<MastodonRequest(pm.url, pm.text)>>
       /\ IsSlack(pm.url) => pm.result.requests = <<SlackRequest(pm.url, pm.text)>>
\* C9 as amended: a destination that does not start with the Slack prefix and
\* holds exactly one "?" is split at it and gets that one POST; with two or
\* more "?", or none, post_message raises and makes no POST.
C9_SplitOnOnlyMark ==
    pm.phase = "return"
    => /\ ~IsSlack(pm.url) /\ Cardinality(Marks(pm.url)) = 1
            => /\ pm.result.requests = <<MastodonRequest(pm.url, pm.text)>>
               /\ pm.result.raised = ~pm.delivered
       /\ ~IsSlack(pm.url) /\ Cardinality(Marks(pm.url)) # 1
            => pm.result.requests = <<>> /\ pm.result.raised
       /\ IsSlack(pm.url)
            => /\ pm.result.requests = <<SlackRequest(pm.url, pm.text)>>
               /\ pm.result.raised = ~pm.delivered
C9_MastodonPosted ==
    /\ pm.phase = "return" /\ ~IsSlack(pm.url)
    /\ Cardinality(Marks(pm.url)) = 1 /\ Len(pm.url) = 4 /\ pm.url[3] = "?"
    /\ Len(pm.result.requests) = 1

====
